---------------------------- MODULE Spec2Model ----------------------------
(***************************************************************************)
(* Model of the GRIB2 streaming reader of duckdb-weather                   *)
(* (src/rust/src/lib.rs): message extraction (Grib2Reader::from_reader),   *)
(* the cursor and batch producer (Grib2Reader::read_batch) and the C entry *)
(* points that open, read and close a reader, read a whole file, and       *)
(* release what was handed out.                                            *)
(*                                                                         *)
(* Specifications.  Spec: the entry points on one reader at a time.        *)
(* PairSpec: two readers over one source.  BatchSpec: batch reads on an    *)
(* open reader.  ExtractSpec: extraction of sources with chosen index keys *)
(* and raw longitudes.  OwnSpec: the entry points with the allocations     *)
(* they hand out and release.  LegacySpec: grib2_read_file and             *)
(* grib2_free_result.                                                      *)
(*                                                                         *)
(* Conventions.  Rust's usize indices are 0-based and are kept 0-based     *)
(* (current_message, current_point); TLA+ sequences are 1-based, so        *)
(* messages[current_message] is written messages[current_message + 1].     *)
(* f64 coordinates and values are whole numbers of degrees / units.  An    *)
(* Option<T> is a sequence: << >> for None, <<v>> for Some(v).  A C string *)
(* pointer is a string, the null pointer being "NULL".  An allocation has  *)
(* an address 1, 2, ...; in what a caller holds the null pointer is 0.     *)
(***************************************************************************)
EXTENDS Integers, Sequences, FiniteSets, TLC

\* ------------------------------------------------------------- bounds
\* Most submessages one source holds.
MaxSubs == 2
\* Most grid points one submessage holds.
MaxPts == 2
\* Largest max_count a caller passes to read_batch.
MaxCount == 3

\* ---------------------------------------------------- helper operators
Min(a, b) == IF a < b THEN a ELSE b

\* Option::unwrap_or
unwrap_or(opt, default) == IF opt = << >> THEN default ELSE opt[1]

\* Iterator::zip: pairs positionally, the shorter sequence ends the pairing.
zip(xs, ys) == [k \in 1..Min(Len(xs), Len(ys)) |-> <<xs[k], ys[k]>>]

\* `x as u32`: x modulo 2^32, computed on 16-bit limbs (the modulus itself
\* is beyond the integers TLC holds).
as_u32(x) == ((x \div 65536) % 65536) * 65536 + (x % 65536)

NULL == "NULL"
NullData == [null |-> TRUE]

\* ------------------------------------------- the external grid decoder
\* What the grib crate yields for one submessage at position i (1-based) of
\* a source: its index key (message number, submessage number), metadata,
\* and the results of latlons(), Grib2SubmessageDecoder::from and
\* dispatch().  fail names the first of the three that returns Err.
RawLon(i, j) == 160 + 10 * j + 100 * (i - 1)

Submessage(i, fail, nlat, nval) ==
    [ idx       |-> <<i - 1, 0>>,
      discipline |-> i - 1,
      parameter_category |-> IF i = 1 THEN << >> ELSE <<i>>,
      parameter_number   |-> <<i + 1>>,
      forecast_time      |-> IF i = 2 THEN << >> ELSE <<6 * i>>,
      fixed_surfaces     |-> IF i = 1 THEN <<[surface_type |-> 103, value |-> 2]>>
                                      ELSE << >>,
      fail      |-> fail,
      latlons   |-> [j \in 1..nlat |-> <<i, RawLon(i, j)>>],
      values    |-> [j \in 1..nval |-> 10 * i + j] ]

\* The shapes a submessage takes: decodable with n points, decodable with
\* fewer values than grid points, or failing in one of the three calls.
SubShapes ==
    {[fail |-> "none", nlat |-> n, nval |-> n] : n \in 0..MaxPts}
      \cup {[fail |-> "none", nlat |-> MaxPts, nval |-> 1]}
      \cup {[fail |-> f, nlat |-> 1, nval |-> 1] :
                f \in {"latlons", "decoder", "dispatch"}}

\* A source the decoder accepts: a sequence of submessages.
Sources ==
    UNION { { [i \in 1..n |-> Submessage(i, sh[i].fail, sh[i].nlat, sh[i].nval)] :
                sh \in [1..n -> SubShapes] } : n \in 0..MaxSubs }

\* ------------------------------------------------- message extraction
\* A mutation of the closure: the test is lon >= 180.
normalize_ge(pairs) ==
    [k \in 1..Len(pairs) |->
        LET lat == pairs[k][1][1]
            lon == pairs[k][1][2]
            lon_normalized == IF lon >= 180 THEN lon - 360 ELSE lon
        IN  <<lat, lon_normalized, pairs[k][2]>>]

\* The closure mapped over latlons.zip(values): the longitude is normalized
\* and the pair flattened to (lat, lon, value).
normalize(pairs) ==
    [k \in 1..Len(pairs) |->
        LET lat == pairs[k][1][1]
            lon == pairs[k][1][2]
            lon_normalized == IF lon > 180 THEN lon - 360 ELSE lon
        IN  <<lat, lon_normalized, pairs[k][2]>>]

\* A mutation of flat_index: the message number is not scaled.
flat_index_unscaled(msg_idx) == as_u32(msg_idx[1] + msg_idx[2])

\* flat_index: (msg_idx.0 * 1000 + msg_idx.1) as u32.
flat_index(msg_idx) == as_u32(msg_idx[1] * 1000 + msg_idx[2])

\* One pass of the loop body of from_reader for a submessage that decodes.
ParsedMessage(sub) ==
    LET surface == IF sub.fixed_surfaces = << >>
                     THEN <<0, 0>>
                     ELSE <<sub.fixed_surfaces[1].surface_type,
                            sub.fixed_surfaces[1].value>>
    IN  [ discipline         |-> sub.discipline,
          parameter_category |-> unwrap_or(sub.parameter_category, 0),
          parameter_number   |-> unwrap_or(sub.parameter_number, 0),
          forecast_time      |-> unwrap_or(sub.forecast_time, 0),
          surface_type       |-> surface[1],
          surface_value      |-> surface[2],
          message_index      |-> flat_index(sub.idx),
          points |-> normalize(zip(sub.latlons, sub.values)) ]

\* A mutation of the extraction loop: the first submessage that fails ends
\* the loop (break) instead of being skipped (continue).
RECURSIVE extract_break(_, _)
extract_break(subs, messages) ==
    IF subs = << >> THEN messages
    ELSE IF Head(subs).fail # "none" THEN messages
    ELSE extract_break(Tail(subs), Append(messages, ParsedMessage(Head(subs))))

\* The for loop of from_reader over grib2.iter(): a submessage whose
\* latlons(), decoder construction or dispatch() fails is skipped.
RECURSIVE extract(_, _)
extract(subs, messages) ==
    IF subs = << >> THEN messages
    ELSE IF Head(subs).fail # "none" THEN extract(Tail(subs), messages)
    ELSE extract(Tail(subs), Append(messages, ParsedMessage(Head(subs))))

\* Result<T, String>
Ok(v) == [ok |-> TRUE, val |-> v, err |-> NULL]
Err(e) == [ok |-> FALSE, val |-> << >>, err |-> e]

\* Byte contents (of a file or of a caller's buffer): bytes the decoder
\* rejects as a whole, or a source it accepts.
Garbage == [kind |-> "garbage", src |-> << >>]
Grib(src) == [kind |-> "grib", src |-> src]
Contents == {Garbage} \cup {Grib(s) : s \in Sources}

\* Grib2Reader::from_reader: grib::from_reader fails on the whole source, or
\* its submessages are extracted and the cursor starts at (0, 0).
from_reader(content) ==
    IF content.kind = "garbage"
      THEN Err("Failed to parse GRIB")
      ELSE Ok([ messages |-> extract(content.src, << >>),
                current_message |-> 0,
                current_point   |-> 0 ])

\* A path argument: a null pointer, bytes that are not UTF-8, or text naming
\* no file or a file with the given contents.
NullPath == [kind |-> "null", content |-> Garbage]
NonUtf8Path == [kind |-> "nonutf8", content |-> Garbage]
MissingPath == [kind |-> "missing", content |-> Garbage]
FilePath(c) == [kind |-> "file", content |-> c]
Paths == {NullPath, NonUtf8Path, MissingPath} \cup {FilePath(c) : c \in Contents}

\* Grib2Reader::new: File::open, then from_reader over the file.
new(path) ==
    IF path.kind = "missing"
      THEN Err("Failed to open file")
      ELSE from_reader(path.content)

\* Grib2Reader::from_bytes: from_reader over a copy of the bytes.
from_bytes(content) == from_reader(content)

NoReader == [messages |-> << >>, current_message |-> 0, current_point |-> 0]

\* ------------------------------------------ cursor and batch producer
Grib2DataPoint(msg, p) ==
    [ latitude  |-> p[1],
      longitude |-> p[2],
      value     |-> p[3],
      discipline         |-> msg.discipline,
      parameter_category |-> msg.parameter_category,
      parameter_number   |-> msg.parameter_number,
      forecast_time      |-> msg.forecast_time,
      surface_type       |-> msg.surface_type,
      surface_value      |-> msg.surface_value,
      message_index      |-> msg.message_index ]

\* A mutation of the inner loop: each point is put in front of the batch.
RECURSIVE read_inner_prepend(_, _, _, _)
read_inner_prepend(msg, current_point, points, max_count) ==
    IF current_point < Len(msg.points) /\ Len(points) < max_count
      THEN read_inner_prepend(msg, current_point + 1,
                      <<Grib2DataPoint(msg, msg.points[current_point + 1])>> \o points,
                      max_count)
      ELSE [current_point |-> current_point, points |-> points]

\* The inner while loop of read_batch.
RECURSIVE read_inner(_, _, _, _)
read_inner(msg, current_point, points, max_count) ==
    IF current_point < Len(msg.points) /\ Len(points) < max_count
      THEN read_inner(msg, current_point + 1,
                      Append(points, Grib2DataPoint(msg, msg.points[current_point + 1])),
                      max_count)
      ELSE [current_point |-> current_point, points |-> points]

\* A mutation of the outer loop: the cursor moves to the next message after
\* every pass of the inner loop, also when the batch filled mid-message.
RECURSIVE read_outer_advance(_, _, _, _, _)
read_outer_advance(messages, current_message, current_point, points, max_count) ==
    IF ~(Len(points) < max_count) \/ current_message >= Len(messages)
      THEN [current_message |-> current_message,
            current_point |-> current_point, points |-> points]
      ELSE LET msg == messages[current_message + 1]
               in  == read_inner(msg, current_point, points, max_count)
           IN  read_outer_advance(messages, current_message + 1, 0,
                                  in.points, max_count)

\* The outer while loop of read_batch.
RECURSIVE read_outer(_, _, _, _, _)
read_outer(messages, current_message, current_point, points, max_count) ==
    IF ~(Len(points) < max_count)
      THEN [current_message |-> current_message,
            current_point |-> current_point, points |-> points]
    ELSE IF current_message >= Len(messages)
      THEN [current_message |-> current_message,
            current_point |-> current_point, points |-> points]
    ELSE LET msg == messages[current_message + 1]
             in  == read_inner(msg, current_point, points, max_count)
         IN  IF in.current_point >= Len(msg.points)
               THEN read_outer(messages, current_message + 1, 0,
                               in.points, max_count)
               ELSE read_outer(messages, current_message, in.current_point,
                               in.points, max_count)

\* A mutation of the end of read_batch: the count == 0 branch is missing,
\* so an empty batch carries the (zero-length) vector's pointer.
read_batch_end_noempty(self, w, max_count) ==
    [ self  |-> [self EXCEPT !.current_message = w.current_message,
                             !.current_point = w.current_point],
      batch |-> [ data     |-> [null |-> FALSE, pts |-> w.points,
                                capacity |-> max_count],
                  count    |-> Len(w.points),
                  has_more |-> w.current_message < Len(self.messages),
                  error    |-> NULL ] ]

\* The end of read_batch, after its loops left the cursor and the points
\* in w: has_more, count and the batch built from them.
read_batch_end(self, w, max_count) ==
    LET has_more == w.current_message < Len(self.messages)
        count == Len(w.points)
    IN  [ self  |-> [self EXCEPT !.current_message = w.current_message,
                                 !.current_point = w.current_point],
          batch |-> IF count = 0
                      THEN [ data |-> NullData, count |-> 0,
                             has_more |-> FALSE, error |-> NULL ]
                      ELSE [ data |-> [null |-> FALSE, pts |-> w.points,
                                       capacity |-> max_count],
                             count |-> count,
                             has_more |-> has_more,
                             error |-> NULL ] ]

\* Grib2Reader::read_batch: the reader after the call and the batch returned.
read_batch(self, max_count) ==
    read_batch_end(self,
                   read_outer(self.messages, self.current_message,
                              self.current_point, << >>, max_count),
                   max_count)

\* A mutation of total_points: counts the messages, not their points.
RECURSIVE total_points_messages(_)
total_points_messages(messages) ==
    IF messages = << >> THEN 0 ELSE 1 + total_points_messages(Tail(messages))

\* Grib2Reader::total_points: the sum of the messages' point counts.
RECURSIVE total_points(_)
total_points(messages) ==
    IF messages = << >> THEN 0
    ELSE Len(Head(messages).points) + total_points(Tail(messages))

\* ------------------------------------------------------------- state
VARIABLES
    handle,       \* the caller's reader handle: NULL or "reader"
    reader,       \* the boxed Grib2Reader behind the handle
    source,       \* the submessages the live reader was extracted from
    call,         \* the last entry point called, with its arguments
    ret,          \* what that call returned or stored
    pre,          \* the cursor and history as they were before that call
    crashed,      \* the process died in undefined behaviour
    delivered,    \* the points read_batch returned since the open, in order
    sawNoMore,    \* some read_batch on the live reader returned has_more = false
    allPositive,  \* every read_batch on the live reader had max_count > 0
    total0,       \* what total_points returns on the reader as opened
    ra, rb,       \* two readers over one source (size invariance)
    outA, outB,   \* the points each has returned, in order
    reqA, reqB,   \* the sum of the max_count values each was called with
    ex,           \* one extraction: the decoder's source, the reader, the points read
    heap,         \* the live allocations the library made
    box,          \* the address of the boxed reader behind the handle, or 0
    held,         \* what the caller was handed and has not freed yet
    last          \* what the last call released

vars == << handle, reader, source, call, ret, pre, crashed, delivered,
           sawNoMore, allPositive, total0, ra, rb, outA, outB, reqA, reqB, ex,
           heap, box, held, last >>

ownVars == << heap, box, held, last >>

\* The variables the entry points leave alone when the allocations and the
\* extraction of keyed sources are not followed.
auxVars == << ex, ownVars >>

pairVars == << ra, rb, outA, outB, reqA, reqB >>
histVars == << delivered, sawNoMore, allPositive, total0 >>

NoBatch == [data |-> NullData, count |-> 0, has_more |-> FALSE, error |-> NULL]

\* What the caller holds of a batch, a result or an error string: the
\* addresses in its data and error fields (0 for null), its count, and the
\* points its buffer held when it was handed out.
NullItem(kind) == [kind |-> kind, data |-> 0, count |-> 0, error |-> 0,
                   pts |-> << >>]

NoCall == [ op |-> "none", path |-> "-", data |-> "-", content |-> "-",
            len_zero |-> FALSE,
            errp_null |-> FALSE, rdr |-> NULL, max_count |-> 0,
            item |-> NullItem("none") ]

\* error: the value stored through the error out-parameter ("UNWRITTEN" when
\* the call stored nothing); io: File::open was called; decoded: the decoder
\* (grib::from_reader) was invoked; boxed: a Grib2Reader was moved to the heap.
NoResult == [data |-> NullData, count |-> 0, error |-> NULL]

NoRet == [ status |-> "returned", handle |-> NULL, error |-> "UNWRITTEN",
           batch |-> NoBatch, result |-> NoResult, total |-> 0,
           io |-> FALSE, decoded |-> FALSE, boxed |-> FALSE ]

Snapshot == [ current_message |-> reader.current_message,
              current_point   |-> reader.current_point,
              message_count   |-> Len(reader.messages),
              sawNoMore       |-> sawNoMore,
              live            |-> handle # NULL ]

MainInit ==
    /\ handle = NULL
    /\ reader = NoReader
    /\ source = << >>
    /\ call = NoCall
    /\ ret = NoRet
    /\ pre = [ current_message |-> 0, current_point |-> 0, message_count |-> 0,
               sawNoMore |-> FALSE, live |-> FALSE ]
    /\ crashed = FALSE
    /\ delivered = << >>
    /\ sawNoMore = FALSE
    /\ allPositive = TRUE
    /\ total0 = 0

\* No extraction under way.
NoExtraction == [stage |-> "none", src |-> << >>, reader |-> NoReader,
                 emitted |-> << >>]

\* What the last call released: the addresses it passed on to be released,
\* whether one of them was not live, the capacities a buffer was allocated
\* with and released with; and the path a legacy read found behind its
\* pointer.
NoLast == [ released |-> {}, stale |-> FALSE,
            alloc_capacity |-> 0, free_capacity |-> 0,
            path |-> MissingPath ]

\* Nothing allocated and nothing handed out.
OwnIdle ==
    /\ heap = {}
    /\ box = 0
    /\ held = {}
    /\ last = NoLast

\* The two readers of the size-invariance runs, unused.
PairIdle ==
    /\ ra = NoReader /\ rb = NoReader
    /\ outA = << >> /\ outB = << >>
    /\ reqA = 0 /\ reqB = 0

Init ==
    /\ MainInit
    /\ PairIdle
    /\ ex = NoExtraction
    /\ OwnIdle

\* ------------------------------------------------- undefined behaviour
\* CStr::from_ptr on a path pointer.  A null pointer is dereferenced: the
\* process faults, or the bytes found there are read as a path.
PathReadings(path) ==
    IF path.kind = "null"
      THEN {[kind |-> "crash", content |-> Garbage], NonUtf8Path, MissingPath}
      ELSE {path}

\* `*error = v` through the error out-parameter.  Through a null pointer the
\* process faults or the store is lost.
StoreOutcomes(errp_null, v) ==
    IF errp_null THEN {"crash", "UNWRITTEN"} ELSE {v}

\* The state after a fault: nothing is returned and no call follows.
Crash(c) ==
    /\ crashed' = TRUE
    /\ call' = c
    /\ ret' = [NoRet EXCEPT !.status = "crashed"]
    /\ pre' = Snapshot
    /\ UNCHANGED << handle, reader, source, histVars, pairVars >>

\* The state after an open call returned: a reader behind the handle, or none.
\* error is what the call stored through its error out-parameter and io
\* whether it reached File::open.
Opened(c, res, error, io, src) ==
    /\ call' = c
    /\ pre' = Snapshot
    /\ ret' = [NoRet EXCEPT !.handle = IF res.ok THEN "reader" ELSE NULL,
                            !.error = error,
                            !.io = io,
                            !.decoded = res.ok \/ res.err = "Failed to parse GRIB",
                            !.boxed = res.ok]
    /\ handle' = IF res.ok THEN "reader" ELSE NULL
    /\ reader' = IF res.ok THEN res.val ELSE NoReader
    /\ source' = IF res.ok THEN src ELSE << >>
    /\ delivered' = << >>
    /\ sawNoMore' = FALSE
    /\ allPositive' = TRUE
    /\ total0' = IF res.ok THEN total_points(res.val.messages) ELSE 0
    /\ crashed' = FALSE
    /\ UNCHANGED pairVars

\* The end of an open with an error out-parameter: res.err (null on
\* success) is stored through it and the handle returned.
Stored(c, res, errp_null, io, src) ==
    \E st \in StoreOutcomes(errp_null, res.err) :
        IF st = "crash" THEN Crash(c)
        ELSE Opened(c, res, st, io, src)

\* CStr::to_str on the path, then Grib2Reader::new.
to_str_new(p) ==
    IF p.kind = "nonutf8" THEN Err("Invalid UTF-8 in path") ELSE new(p)

\* A buffer argument of open_from_bytes: a null pointer or bytes.
NullBuf == [kind |-> "null", content |-> Garbage]
Bytes(c) == [kind |-> "bytes", content |-> c]
Buffers == {NullBuf} \cup {Bytes(c) : c \in Contents}

\* What a path or buffer argument holds, as recorded with the call.
FileKind(path) == IF path.kind = "file" THEN path.content.kind ELSE "-"
BufKind(data) == IF data.kind = "bytes" THEN data.content.kind ELSE "-"

\* --------------------------------------------------------- entry points
\* The caller holds one reader at a time: an open is called while its handle
\* is null, and close makes it null again.
\* grib2_open(path): the handle, or null on any failure.
grib2_open(path) ==
    /\ ~crashed /\ handle = NULL
    /\ LET c == [NoCall EXCEPT !.op = "grib2_open", !.path = path.kind,
                               !.content = FileKind(path)]
       IN  \E p \in PathReadings(path) :
             IF p.kind = "crash" THEN Crash(c)
             ELSE Opened(c, to_str_new(p), "UNWRITTEN", p.kind # "nonutf8",
                         p.content.src)

\* grib2_open_with_error(path, error): the handle and null stored through
\* error, or null and a message stored through error.
grib2_open_with_error(path, errp_null) ==
    /\ ~crashed /\ handle = NULL
    /\ LET c == [NoCall EXCEPT !.op = "grib2_open_with_error",
                               !.path = path.kind,
                               !.content = FileKind(path),
                               !.errp_null = errp_null]
       IN  \E p \in PathReadings(path) :
             IF p.kind = "crash" THEN Crash(c)
             ELSE Stored(c, to_str_new(p), errp_null, p.kind # "nonutf8",
                         p.content.src)

\* A mutation of grib2_open_from_bytes: the guard joins its two tests with
\* && instead of ||, so a null buffer with a length, or a buffer with length
\* zero, goes on to the decoder.
grib2_open_from_bytes_and(data, len_zero, errp_null) ==
    /\ ~crashed /\ handle = NULL
    /\ LET c == [NoCall EXCEPT !.op = "grib2_open_from_bytes",
                               !.data = data.kind,
                               !.content = BufKind(data),
                               !.len_zero = len_zero,
                               !.errp_null = errp_null]
       IN  Stored(c,
                  IF data.kind = "null" /\ len_zero
                    THEN Err("Empty or null data")
                    ELSE from_bytes(data.content),
                  errp_null, FALSE, data.content.src)

\* grib2_open_from_bytes(data, len, error)
grib2_open_from_bytes(data, len_zero, errp_null) ==
    /\ ~crashed /\ handle = NULL
    /\ LET c == [NoCall EXCEPT !.op = "grib2_open_from_bytes",
                               !.data = data.kind,
                               !.content = BufKind(data),
                               !.len_zero = len_zero,
                               !.errp_null = errp_null]
       IN  Stored(c,
                  IF data.kind = "null" \/ len_zero
                    THEN Err("Empty or null data")
                    ELSE from_bytes(data.content),
                  errp_null, FALSE, data.content.src)

\* The reader and the history after read_batch returned r on the live reader.
Returned(r, max_count) ==
    /\ reader' = r.self
    /\ ret' = [NoRet EXCEPT !.handle = handle, !.batch = r.batch]
    /\ delivered' = IF r.batch.data.null THEN delivered
                    ELSE delivered \o r.batch.data.pts
    /\ sawNoMore' = (sawNoMore \/ ~r.batch.has_more)
    /\ allPositive' = (allPositive /\ max_count > 0)
    /\ UNCHANGED total0

\* grib2_read_batch(reader, max_count)
grib2_read_batch(rdr, max_count) ==
    /\ ~crashed
    /\ call' = [NoCall EXCEPT !.op = "grib2_read_batch", !.rdr = rdr,
                              !.max_count = max_count]
    /\ pre' = Snapshot
    /\ IF rdr = NULL
         THEN /\ ret' = [NoRet EXCEPT !.batch = [NoBatch EXCEPT !.error = "Null reader"]]
              /\ UNCHANGED << reader, histVars >>
         ELSE Returned(read_batch(reader, max_count), max_count)
    /\ UNCHANGED << handle, source, crashed, pairVars >>

\* grib2_total_points(reader): 0 for a null handle.
grib2_total_points(rdr) ==
    /\ ~crashed
    /\ call' = [NoCall EXCEPT !.op = "grib2_total_points", !.rdr = rdr]
    /\ pre' = Snapshot
    /\ LET n == IF rdr = NULL THEN 0 ELSE total_points(reader.messages)
       IN  ret' = [NoRet EXCEPT !.handle = rdr, !.total = n]
    /\ UNCHANGED << handle, reader, source, crashed, histVars, pairVars >>

\* grib2_close(reader): drops the boxed reader; nothing on a null handle.
grib2_close(rdr) ==
    /\ ~crashed
    /\ call' = [NoCall EXCEPT !.op = "grib2_close", !.rdr = rdr]
    /\ pre' = Snapshot
    /\ ret' = NoRet
    /\ IF rdr = NULL
         THEN UNCHANGED << handle, reader, source, histVars >>
         ELSE /\ handle' = NULL
              /\ reader' = NoReader
              /\ source' = << >>
              /\ delivered' = << >>
              /\ sawNoMore' = FALSE
              /\ allPositive' = TRUE
              /\ total0' = 0
    /\ UNCHANGED << crashed, pairVars >>

\* The reader arguments a caller has: the null pointer and its handle.
ReaderArgs == {NULL, handle}

\* The allocations are not followed here.
Next ==
    \/ \E path \in Paths : grib2_open(path) /\ UNCHANGED auxVars
    \/ \E path \in Paths, errp_null \in BOOLEAN :
         grib2_open_with_error(path, errp_null) /\ UNCHANGED auxVars
    \/ \E data \in Buffers, len_zero \in BOOLEAN, errp_null \in BOOLEAN :
         grib2_open_from_bytes(data, len_zero, errp_null) /\ UNCHANGED auxVars
    \/ \E rdr \in ReaderArgs, max_count \in 0..MaxCount :
         grib2_read_batch(rdr, max_count) /\ UNCHANGED auxVars
    \/ \E rdr \in ReaderArgs : grib2_total_points(rdr) /\ UNCHANGED auxVars
    \/ \E rdr \in ReaderArgs : grib2_close(rdr) /\ UNCHANGED auxVars

Spec == Init /\ [][Next]_vars

\* The points of a batch (none behind a null buffer).
BatchPoints(b) == IF b.data.null THEN << >> ELSE b.data.pts

\* ------------------------------------- two readers over one source
\* Two fresh readers extracted from the same source, each then read with
\* its own sequence of positive max_count values.
PairInit ==
    /\ MainInit
    /\ \E s \in Sources :
         /\ ra = from_reader(Grib(s)).val
         /\ rb = from_reader(Grib(s)).val
    /\ outA = << >> /\ outB = << >>
    /\ reqA = 0 /\ reqB = 0
    /\ ex = NoExtraction
    /\ OwnIdle

mainVars == << handle, reader, source, call, ret, pre, crashed, histVars >>

\* One read_batch(n) on the first reader.  Calls go on until the requested
\* sizes sum past the reader's total (further calls are reads of an
\* exhausted reader).
PairReadA(n) ==
    /\ reqA <= total_points(ra.messages)
    /\ ra' = read_batch(ra, n).self
    /\ outA' = outA \o BatchPoints(read_batch(ra, n).batch)
    /\ reqA' = reqA + n
    /\ UNCHANGED << rb, outB, reqB, mainVars >>

\* One read_batch(n) on the second reader.
PairReadB(n) ==
    /\ reqB <= total_points(rb.messages)
    /\ rb' = read_batch(rb, n).self
    /\ outB' = outB \o BatchPoints(read_batch(rb, n).batch)
    /\ reqB' = reqB + n
    /\ UNCHANGED << ra, outA, reqA, mainVars >>

PairNext ==
    \/ \E n \in 1..MaxCount : PairReadA(n) /\ UNCHANGED auxVars
    \/ \E n \in 1..MaxCount : PairReadB(n) /\ UNCHANGED auxVars

\* ------------------------------------- batch reads on an open reader
\* The largest max_count of the batch reads below.
MaxBatch == 4

\* The source of two submessages with 3 and 5 points, none failing.
ScenarioSource == << Submessage(1, "none", 3, 3), Submessage(2, "none", 5, 5) >>

\* A reader was opened over a source the decoder accepts.
BatchInit ==
    /\ PairIdle
    /\ ex = NoExtraction
    /\ OwnIdle
    /\ \E s \in Sources \cup {ScenarioSource} :
         /\ source = s
         /\ reader = from_reader(Grib(s)).val
         /\ total0 = total_points(from_reader(Grib(s)).val.messages)
    /\ handle = "reader"
    /\ call = NoCall
    /\ ret = [NoRet EXCEPT !.handle = "reader"]
    /\ pre = [ current_message |-> 0, current_point |-> 0, message_count |-> 0,
               sawNoMore |-> FALSE, live |-> FALSE ]
    /\ crashed = FALSE
    /\ delivered = << >>
    /\ sawNoMore = FALSE
    /\ allPositive = TRUE

BatchNext ==
    \/ \E rdr \in ReaderArgs, n \in 0..MaxBatch :
         grib2_read_batch(rdr, n) /\ UNCHANGED auxVars
    \/ \E rdr \in ReaderArgs : grib2_total_points(rdr) /\ UNCHANGED auxVars

BatchSpec == BatchInit /\ [][BatchNext]_vars

\* ------------------------------------- ownership of the allocations
\* The number of items (batches, results, error strings) a caller holds at
\* a time.
MaxHeld == 1

\* The allocations the library hands to its caller: the boxed reader
\* (Box::into_raw), a batch's point buffer (as_mut_ptr and mem::forget of a
\* vector allocated with capacity max_count) and an error string
\* (CString::into_raw).
BoxAlloc(id) == [id |-> id, kind |-> "reader", capacity |-> 0, pts |-> << >>]
BufferAlloc(id, data) == [id |-> id, kind |-> "buffer",
                          capacity |-> data.capacity, pts |-> data.pts]
StringAlloc(id) == [id |-> id, kind |-> "string", capacity |-> 0, pts |-> << >>]

\* The addresses of the live allocations.
Live == {a.id : a \in heap}

\* The address the allocator gives next: the lowest one not in use.
FreshId(used) ==
    CHOOSE n \in 1..(Cardinality(used) + 1) :
        n \notin used /\ \A m \in 1..(n - 1) : m \in used

\* The capacity the allocation at ptr was made with.
CapacityAt(ptr) ==
    IF ptr \in Live THEN (CHOOSE a \in heap : a.id = ptr).capacity ELSE 0

\* A mutation of to_release: the null test is missing.
to_release_always(ptr) == {ptr}

\* `if !ptr.is_null() { release }`: the addresses passed on to be released.
to_release(ptr) == IF ptr = 0 THEN {} ELSE {ptr}

\* Dropping Vec::from_raw_parts(data, count, count): the allocator is told
\* the capacity count.  When the buffer was allocated with another capacity
\* this is undefined behaviour: the release goes through, or it faults and
\* the buffer is never returned to the allocator.
ReleaseOutcomes(alloc_capacity, free_capacity) ==
    IF alloc_capacity = free_capacity THEN {"released"}
    ELSE {"released", "fault"}

\* What the caller holds of the batch or result b, its allocations placed
\* at the next addresses.
Item(kind, b) ==
    LET d == IF b.data.null THEN 0 ELSE FreshId(Live)
        e == IF b.error = NULL THEN 0 ELSE FreshId(Live \cup {d})
    IN  [ kind  |-> kind,
          data  |-> d,
          count |-> b.count,
          error |-> e,
          pts   |-> BatchPoints(b) ]

\* The allocations behind the item of b.
Allocs(b, item) ==
    (IF item.data = 0 THEN {} ELSE {BufferAlloc(item.data, b.data)})
      \cup (IF item.error = 0 THEN {} ELSE {StringAlloc(item.error)})

\* The batch or result b is handed to the caller.
HandedOut(b, item) ==
    /\ heap' = heap \cup Allocs(b, item)
    /\ held' = IF item.data = 0 /\ item.error = 0 THEN held
               ELSE held \cup {item}

\* The caller may hold one more item.
CanHold == Cardinality(held) < MaxHeld

\* grib2_open_with_error with its allocations: the boxed reader on success,
\* the error string on failure.
owned_open_with_error(path) ==
    /\ CanHold
    /\ grib2_open_with_error(path, FALSE)
    /\ IF handle' # NULL
         THEN /\ heap' = heap \cup {BoxAlloc(FreshId(Live))}
              /\ box' = FreshId(Live)
              /\ UNCHANGED held
         ELSE /\ heap' = heap \cup {StringAlloc(FreshId(Live))}
              /\ held' = held \cup {[NullItem("error") EXCEPT
                                        !.error = FreshId(Live)]}
              /\ UNCHANGED box
    /\ last' = NoLast
    /\ UNCHANGED ex

\* grib2_read_batch with its allocations: the point buffer of a non-empty
\* batch, the error string of the null-reader batch.
owned_read_batch(rdr, max_count) ==
    /\ CanHold
    /\ grib2_read_batch(rdr, max_count)
    /\ HandedOut(ret'.batch, Item("batch", ret'.batch))
    /\ last' = NoLast
    /\ UNCHANGED << box, ex >>

\* grib2_close with its release: the boxed reader, unless the handle is null.
owned_close(rdr) ==
    /\ grib2_close(rdr)
    /\ LET ptrs == to_release(IF rdr = NULL THEN 0 ELSE box)
       IN  /\ heap' = {a \in heap : a.id \notin ptrs}
           /\ last' = [NoLast EXCEPT !.released = ptrs,
                                     !.stale = ~(ptrs \subseteq Live)]
    /\ box' = IF rdr = NULL THEN box ELSE 0
    /\ UNCHANGED << held, ex >>

\* The body of grib2_free_batch and of grib2_free_result: the buffer is
\* released as a vector of capacity count unless data is null, then the
\* error string unless error is null.
free_parts(op, b) ==
    /\ ~crashed
    /\ call' = [NoCall EXCEPT !.op = op, !.item = b]
    /\ pre' = Snapshot
    /\ held' = held \ {b}
    /\ \E outcome \in (IF b.data = 0 THEN {"released"}
                       ELSE ReleaseOutcomes(CapacityAt(b.data), b.count)) :
         LET ptrs == IF outcome = "fault" THEN to_release(b.data)
                     ELSE to_release(b.data) \cup to_release(b.error)
         IN  /\ crashed' = (outcome = "fault")
             /\ ret' = [NoRet EXCEPT !.status = IF outcome = "fault"
                                                 THEN "crashed" ELSE "returned"]
             /\ heap' = IF outcome = "fault" THEN heap
                        ELSE {a \in heap : a.id \notin ptrs}
             /\ last' = [NoLast EXCEPT !.released = ptrs,
                                       !.stale = ~(ptrs \subseteq Live),
                                       !.alloc_capacity = CapacityAt(b.data),
                                       !.free_capacity = b.count]
    /\ UNCHANGED << handle, reader, source, histVars, pairVars, ex, box >>

\* grib2_free_batch(batch)
grib2_free_batch(batch) == free_parts("grib2_free_batch", batch)

\* grib2_free_error(error): the string is released unless error is null.
grib2_free_error(error) ==
    /\ ~crashed
    /\ call' = [NoCall EXCEPT !.op = "grib2_free_error", !.item = error]
    /\ pre' = Snapshot
    /\ ret' = NoRet
    /\ held' = held \ {error}
    /\ LET ptrs == to_release(error.error)
       IN  /\ heap' = {a \in heap : a.id \notin ptrs}
           /\ last' = [NoLast EXCEPT !.released = ptrs,
                                     !.stale = ~(ptrs \subseteq Live)]
    /\ UNCHANGED << handle, reader, source, crashed, histVars, pairVars, ex,
                    box >>

\* A mutation of read_all: the number of messages is taken for the total.
read_all_messages(self) == read_batch(self, Len(self.messages)).batch

\* The one read of grib2_read_file: total = reader.total_points(), then
\* reader.read_batch(total).
read_all(self) == read_batch(self, total_points(self.messages)).batch

\* Grib2ReadResult: the data, count and error of a batch.
Grib2ReadResult(b) == [data |-> b.data, count |-> b.count, error |-> b.error]

\* grib2_read_file(path): the path is opened, every point read in one batch
\* and the reader dropped; on a failed open the result carries the error.
grib2_read_file(path) ==
    /\ ~crashed
    /\ CanHold
    /\ LET c == [NoCall EXCEPT !.op = "grib2_read_file", !.path = path.kind,
                               !.content = FileKind(path)]
       IN  \E p \in PathReadings(path) :
             IF p.kind = "crash"
               THEN /\ Crash(c)
                    /\ last' = NoLast
                    /\ UNCHANGED << heap, held >>
               ELSE LET res == to_str_new(p)
                        b == IF res.ok THEN read_all(res.val)
                             ELSE [NoBatch EXCEPT !.error = res.err]
                    IN  /\ call' = c
                        /\ pre' = Snapshot
                        /\ ret' = [NoRet EXCEPT !.result = Grib2ReadResult(b)]
                        /\ HandedOut(b, Item("result", b))
                        /\ last' = [NoLast EXCEPT !.path = p]
                        /\ UNCHANGED << handle, reader, source, crashed,
                                        histVars, pairVars >>
    /\ UNCHANGED << box, ex >>

\* grib2_free_result(result)
grib2_free_result(result) == free_parts("grib2_free_result", result)

\* What a caller passes to the release functions: an item it holds, or one
\* whose pointers are null.
BatchArgs == {h \in held : h.kind = "batch"} \cup {NullItem("batch")}
ErrorArgs == {h \in held : h.kind = "error"} \cup {NullItem("error")}
ResultArgs == {h \in held : h.kind = "result"} \cup {NullItem("result")}

\* The sources of the ownership runs: no message, one message, and a
\* message followed by one without points.
OwnSources ==
    { << >>,
      << Submessage(1, "none", MaxPts, MaxPts) >>,
      << Submessage(1, "none", 1, 1), Submessage(2, "none", 0, 0) >> }
OwnPaths == {MissingPath} \cup {FilePath(Grib(s)) : s \in OwnSources}

OwnNext ==
    \/ \E path \in OwnPaths : owned_open_with_error(path)
    \/ \E rdr \in ReaderArgs, n \in 0..MaxCount : owned_read_batch(rdr, n)
    \/ \E rdr \in ReaderArgs : owned_close(rdr)
    \/ \E b \in BatchArgs : grib2_free_batch(b)
    \/ \E e \in ErrorArgs : grib2_free_error(e)
    \/ \E path \in OwnPaths : grib2_read_file(path)
    \/ \E r \in ResultArgs : grib2_free_result(r)

OwnSpec == Init /\ [][OwnNext]_vars

\* The legacy pair on its own: the caller has a path, passes it to
\* grib2_read_file once and the result to grib2_free_result.
LegacyInit ==
    /\ MainInit
    /\ PairIdle
    /\ ex = NoExtraction
    /\ heap = {}
    /\ box = 0
    /\ held = {}
    /\ \E path \in Paths : last = [NoLast EXCEPT !.path = path]

LegacyNext ==
    \/ call.op = "none" /\ grib2_read_file(last.path)
    \/ \E r \in ResultArgs : grib2_free_result(r)

LegacySpec == LegacyInit /\ [][LegacyNext]_vars

\* ------------------------------------- extraction of keyed sources
\* Sources whose submessages carry chosen index keys (message number,
\* submessage number) and chosen raw longitudes, one grid point each.
IndexKeys == {<<o, i>> : o \in {0, 1}, i \in {0, 1, 999, 1000}}
RawLons == {-190, -180, -170, 0, 180, 181, 190, 360, 540, 541}

KeyedSub(key, lon) ==
    [Submessage(1, "none", 0, 0) EXCEPT !.idx = key,
                                        !.latlons = << <<key[1], lon>> >>,
                                        !.values = << 100 * key[1] + key[2] >>]

\* grib2.iter() yields the submessages in increasing order of their keys.
KeyLess(a, b) == a[1] < b[1] \/ (a[1] = b[1] /\ a[2] < b[2])

KeyedSources ==
    { << KeyedSub(k, l) >> : k \in IndexKeys, l \in RawLons }
      \cup { << KeyedSub(k[1], l[1]), KeyedSub(k[2], l[2]) >> :
                k \in {kk \in IndexKeys \X IndexKeys : KeyLess(kk[1], kk[2])},
                l \in RawLons \X RawLons }

ExtractInit ==
    /\ MainInit
    /\ PairIdle
    /\ OwnIdle
    /\ \E s \in KeyedSources :
         ex = [NoExtraction EXCEPT !.stage = "source", !.src = s]

\* Grib2Reader::from_reader over the source.
ExtractOpen ==
    /\ ex.stage = "source"
    /\ ex' = [ex EXCEPT !.stage = "reader",
                        !.reader = from_reader(Grib(ex.src)).val]
    /\ UNCHANGED << mainVars, pairVars, ownVars >>

\* read_batch(n) on the extracted reader, while messages remain.
ExtractRead(n) ==
    /\ ex.stage = "reader"
    /\ ex.reader.current_message < Len(ex.reader.messages)
    /\ ex' = [ex EXCEPT !.reader = read_batch(ex.reader, n).self,
                        !.emitted = ex.emitted
                                      \o BatchPoints(read_batch(ex.reader, n).batch)]
    /\ UNCHANGED << mainVars, pairVars, ownVars >>

ExtractNext ==
    \/ ExtractOpen
    \/ \E n \in 1..MaxCount : ExtractRead(n)

ExtractSpec == ExtractInit /\ [][ExtractNext]_vars

PairSpec == PairInit /\ [][PairNext]_vars

\* ------------------------------------------------------------- claims
\* The last call was a read_batch on the live reader.
ReadOnReader == call.op = "grib2_read_batch" /\ call.rdr # NULL

\* C1 (size invariance): two fresh readers over the same message list, read
\* with any two sequences of positive max_count values that each sum to the
\* total point count or more, have returned the same points in the same
\* order, and these are the points one read_batch call with a max_count
\* above the total returns on a fresh reader.
C1_SizeInvariance ==
    LET total == total_points(ra.messages)
        fresh_reader == [ra EXCEPT !.current_message = 0, !.current_point = 0]
    IN  (reqA >= total /\ reqB >= total)
          => /\ outA = outB
             /\ outA = BatchPoints(read_batch(fresh_reader, total + 1).batch)

\* C1 witness: both batchings are complete, they differ (one sums to the
\* total, the other overshoots it), and the points span two messages.
C1_Witness ==
    LET total == total_points(ra.messages)
    IN  /\ total >= 3
        /\ Len(ra.messages) >= 2
        /\ reqA = total /\ reqB > total
        /\ Len(outA) = total /\ Len(outB) = total

\* C2 (exhaustion monotonicity), as claimed: once a read_batch on the reader
\* has returned has_more = false, every later read_batch on it returns an
\* empty batch with has_more = false.
C2_ExhaustionMonotone ==
    (ReadOnReader /\ pre.sawNoMore)
      => (ret.batch.count = 0 /\ ~ret.batch.has_more)

\* C3 (max_count = 0), as claimed: read_batch(0) returns an empty batch,
\* leaves the cursor where it was, and its has_more is true exactly when the
\* reader is not exhausted.
C3_ZeroCountHasMore ==
    (ReadOnReader /\ call.max_count = 0)
      => /\ ret.batch.count = 0
         /\ reader.current_message = pre.current_message
         /\ reader.current_point = pre.current_point
         /\ ret.batch.has_more = (reader.current_message < Len(reader.messages))

\* C4 (has_more), as claimed: after every read_batch on a reader, has_more
\* is true if and only if current_message is below the number of messages.
C4_HasMoreIffNotExhausted ==
    ReadOnReader
      => (ret.batch.has_more = (reader.current_message < Len(reader.messages)))

\* C5 (total accounting): on a reader read only with positive max_count
\* values, once a batch has reported has_more = false the counts of the
\* batches sum to what total_points returned before the first read (and
\* grib2_total_points still returns that value).  Every batch's count is
\* the number of points it holds, so the sum of the counts is the number of
\* points delivered.
C5_TotalAccounting ==
    /\ ReadOnReader => ret.batch.count = Len(BatchPoints(ret.batch))
    /\ (call.op = "grib2_total_points" /\ call.rdr # NULL) => ret.total = total0
    /\ (handle # NULL /\ allPositive /\ sawNoMore)
         => Len(delivered) = total0

\* C5 witness: a reader with a message of zero points and at least two
\* points was drained in more than one read, the last of them empty.
C5_Witness ==
    /\ handle # NULL /\ allPositive /\ sawNoMore
    /\ total0 >= 2
    /\ \E k \in 1..Len(reader.messages) : Len(reader.messages[k].points) = 0
    /\ ReadOnReader /\ ret.batch.count = 0 /\ pre.current_message < pre.message_count

\* C6 (exhausted reader): a read_batch on a reader whose current_message
\* equals its number of messages returns count 0, a null buffer,
\* has_more = false and no error, and leaves the cursor unchanged, whatever
\* max_count is and however many such calls came before.
C6_ExhaustedStaysEmpty ==
    (ReadOnReader /\ pre.current_message = pre.message_count)
      => /\ ret.batch.count = 0
         /\ ret.batch.data.null
         /\ ~ret.batch.has_more
         /\ ret.batch.error = NULL
         /\ reader.current_message = pre.current_message
         /\ reader.current_point = pre.current_point

\* C6 witness: a read with max_count > 0 on a reader with messages that was
\* exhausted and had reported so before.
C6_Witness ==
    /\ ReadOnReader /\ call.max_count > 0
    /\ pre.message_count > 0
    /\ pre.current_message = pre.message_count
    /\ pre.sawNoMore
    /\ Len(delivered) > 0

\* The last call was an open with an error out-parameter.
CheckedOpen == call.op \in {"grib2_open_with_error", "grib2_open_from_bytes"}

\* C7 (one error channel), as claimed: every call of grib2_open_with_error
\* or grib2_open_from_bytes that passes an error out-parameter ends with a
\* handle and null stored through error, or with a null handle and a message
\* stored through error; a path naming no file gives the second and boxes no
\* reader.
C7_OneErrorChannel ==
    (CheckedOpen /\ ~call.errp_null)
      => /\ \/ (ret.handle # NULL /\ ret.error = NULL)
            \/ (ret.handle = NULL /\ ret.error \notin {NULL, "UNWRITTEN"})
         /\ call.path = "missing"
              => (ret.handle = NULL /\ ret.error # NULL /\ ~ret.boxed)

\* The last call passed a null required pointer, an empty byte input or a
\* path that is not text.
ArgumentError ==
    \/ call.op \in {"grib2_open", "grib2_open_with_error"}
         /\ call.path \in {"null", "nonutf8"}
    \/ call.op = "grib2_open_with_error" /\ call.errp_null
    \/ call.op = "grib2_open_from_bytes"
         /\ (call.data = "null" \/ call.len_zero \/ call.errp_null)
    \/ call.op = "grib2_read_batch" /\ call.rdr = NULL

\* C8 (argument errors), as claimed: a call with an argument error returns
\* without faulting, before any file is opened or the decoder invoked, and
\* signals the failure: a null handle from an open, an error string in the
\* batch from read_batch.
C8_ArgumentErrorsReported ==
    ArgumentError
      => /\ ret.status = "returned"
         /\ ~ret.io /\ ~ret.decoded
         /\ ret.handle = NULL
         /\ call.op = "grib2_read_batch" => ret.batch.error # NULL

\* C9 (empty byte input): grib2_open_from_bytes with a null buffer or a
\* length of zero never invokes the decoder and boxes no reader, its handle
\* is null, and the error out-parameter, when one is passed, holds the
\* message "Empty or null data".
C9_EmptyBytesRejected ==
    (call.op = "grib2_open_from_bytes" /\ (call.data = "null" \/ call.len_zero))
      => /\ ~ret.decoded /\ ~ret.boxed
         /\ ret.handle = NULL /\ handle = NULL
         /\ ~call.errp_null
              => (ret.status = "returned" /\ ret.error = "Empty or null data")

\* C9 witness: a null buffer with a non-zero length was rejected with the
\* message.
C9_Witness ==
    /\ call.op = "grib2_open_from_bytes"
    /\ call.data = "null" /\ ~call.len_zero /\ ~call.errp_null
    /\ ret.error = "Empty or null data"

\* The submessages of a source that decode, in order, as messages.
RECURSIVE Decodable(_)
Decodable(subs) ==
    IF subs = << >> THEN << >>
    ELSE (IF Head(subs).fail = "none" THEN <<ParsedMessage(Head(subs))>> ELSE << >>)
         \o Decodable(Tail(subs))

\* The last call was an open whose arguments name a source the decoder
\* accepts, and it returned.
OpenedGrib ==
    /\ ret.status = "returned"
    /\ call.content = "grib"
    /\ \/ call.op \in {"grib2_open", "grib2_open_with_error"} /\ call.path = "file"
       \/ call.op = "grib2_open_from_bytes" /\ call.data = "bytes" /\ ~call.len_zero

\* C10 (skip semantics): an open of a source the decoder accepts succeeds
\* whichever submessages fail; the reader's messages are the submessages
\* whose latlons, decoder construction and dispatch all succeed, in their
\* original order; and over a single submessage that fails the reader has
\* 0 messages, total_points is 0 and a read_batch with max_count > 0
\* returns count 0, has_more false and no error.
C10_SkipSemantics ==
    /\ OpenedGrib => (ret.handle # NULL /\ handle # NULL)
    /\ handle # NULL => reader.messages = Decodable(source)
    /\ (handle # NULL /\ Len(source) = 1 /\ source[1].fail # "none")
         => /\ Len(reader.messages) = 0
            /\ total_points(reader.messages) = 0
            /\ call.op = "grib2_total_points" /\ call.rdr # NULL => ret.total = 0
            /\ (ReadOnReader /\ call.max_count > 0)
                 => /\ ret.batch.count = 0
                    /\ ~ret.batch.has_more
                    /\ ret.batch.error = NULL

\* C10 witness: the first of two submessages failed and the second is the
\* reader's only message, its points delivered by a read.
C10_Witness ==
    /\ handle # NULL
    /\ Len(source) = 2
    /\ source[1].fail # "none" /\ source[2].fail = "none"
    /\ Len(reader.messages) = 1
    /\ ReadOnReader /\ ret.batch.count = 2

\* The cursor's position in the concatenation of all messages' points: the
\* points of the messages before current_message, plus current_point.
position(messages, current_message, current_point) ==
    total_points(SubSeq(messages, 1, current_message)) + current_point

\* The concatenation of all messages' points, each with its message's
\* metadata.
RECURSIVE AllPoints(_)
AllPoints(messages) ==
    IF messages = << >> THEN << >>
    ELSE [k \in 1..Len(Head(messages).points) |->
             Grib2DataPoint(Head(messages), Head(messages).points[k])]
         \o AllPoints(Tail(messages))

\* C11 (legacy read): a grib2_read_file that returned gives what opening the
\* path and reading one batch of total_points() points gives: on a
\* successful open a count equal to total_points(), the points of all
\* messages in order and a null error; on a failed open a null buffer,
\* count 0 and a non-null error.
C11_LegacyRead ==
    (call.op = "grib2_read_file" /\ ret.status = "returned")
      => LET opened == to_str_new(last.path)
         IN  IF opened.ok
               THEN /\ ret.result.count = total_points(opened.val.messages)
                    /\ BatchPoints(ret.result) = AllPoints(opened.val.messages)
                    /\ ret.result.error = NULL
                    /\ ret.result
                         = Grib2ReadResult(
                             read_batch(opened.val,
                                        total_points(opened.val.messages)).batch)
               ELSE /\ ret.result.data.null
                    /\ ret.result.count = 0
                    /\ ret.result.error # NULL

\* C11 witness: a file whose two messages both have points was read, the
\* result holding all of them.
C11_Witness ==
    /\ call.op = "grib2_read_file" /\ ret.status = "returned"
    /\ ret.result.error = NULL
    /\ ret.result.count > 2
    /\ BatchPoints(ret.result)[1].message_index = 0
    /\ BatchPoints(ret.result)[ret.result.count].message_index = 1000

\* Every item the caller holds still has its allocations, the buffer with
\* the points it was handed out with.
HeldValid ==
    \A h \in held :
        /\ h.data # 0 => \E a \in heap : /\ a.id = h.data
                                         /\ a.kind = "buffer"
                                         /\ a.pts = h.pts
        /\ h.error # 0 => \E a \in heap : a.id = h.error /\ a.kind = "string"

\* C12 (independent ownership), as claimed: grib2_free_batch leaves the
\* reader, its messages and its cursor as they were; grib2_close leaves
\* every batch the caller holds valid, with its contents; no call releases
\* an allocation that is not live; and once every batch is freed and the
\* reader closed no allocation is left live.
C12_IndependentOwnership ==
    [][ /\ call'.op = "grib2_free_batch"
             => (UNCHANGED << reader, handle, box >>
                   /\ (box # 0 => box \in {a.id : a \in heap'}))
        /\ call'.op = "grib2_close" => HeldValid'
        /\ ~last'.stale
        /\ (held' = {} /\ box' = 0) => heap' = {} ]_vars

\* The call released nothing and changed nothing of the reader, the heap
\* and what the caller holds.
FreeNothing ==
    /\ last'.released = {}
    /\ UNCHANGED << heap, held, box, handle, reader >>

\* C13 (null is nothing to free): grib2_close(null), grib2_free_error(null)
\* and grib2_free_batch / grib2_free_result of a batch or result whose
\* buffer and error are both null release nothing and change no state; with
\* one of the two null only the other one is released.
C13_NullReleasesNothing ==
    [][ /\ (call'.op = "grib2_close" /\ call'.rdr = NULL) => FreeNothing
        /\ (call'.op = "grib2_free_error" /\ call'.item.error = 0)
             => FreeNothing
        /\ call'.op \in {"grib2_free_batch", "grib2_free_result"}
             => /\ (call'.item.data = 0 /\ call'.item.error = 0)
                     => FreeNothing
                /\ (call'.item.data # 0 /\ call'.item.error = 0)
                     => last'.released = {call'.item.data}
                /\ (call'.item.data = 0 /\ call'.item.error # 0)
                     => /\ last'.released = {call'.item.error}
                        /\ heap' = {a \in heap : a.id # call'.item.error} ]_vars

\* C13 witness: grib2_free_batch was passed the null-reader batch, whose
\* buffer is null, and released its error string while the reader's
\* allocation stayed live.
C13_Witness ==
    /\ call.op = "grib2_free_batch"
    /\ call.item.data = 0 /\ call.item.error # 0
    /\ last.released = {call.item.error}
    /\ box # 0 /\ heap = {BoxAlloc(box)}

\* C14 (cursor only advances): on a live reader the cursor's position in the
\* concatenation is the number of points delivered since the open, no call
\* leaves it lower than it found it, and a read_batch that returns count = n
\* leaves it exactly n higher.
C14_CursorAdvances ==
    LET now    == position(reader.messages, reader.current_message,
                           reader.current_point)
        before == position(reader.messages, pre.current_message,
                           pre.current_point)
    IN  /\ handle # NULL => now = Len(delivered)
        /\ (handle # NULL /\ pre.live) => now >= before
        /\ ReadOnReader => now = before + ret.batch.count

\* C14 witness: a read that started inside the first message returned two
\* points and left the cursor inside a later message.
C14_Witness ==
    /\ ReadOnReader
    /\ pre.current_message = 0 /\ pre.current_point > 0
    /\ ret.batch.count = 2
    /\ reader.current_message > 0 /\ reader.current_point > 0

\* C15 (null iff empty): every batch grib2_read_batch returns, the error
\* batch of a null reader included, has a null buffer exactly when its count
\* is 0, and a non-null buffer holds count points.
C15_NullIffEmpty ==
    call.op = "grib2_read_batch"
      => /\ ret.batch.data.null <=> ret.batch.count = 0
         /\ ~ret.batch.data.null => Len(ret.batch.data.pts) = ret.batch.count

\* C15 witness: a read with max_count > 0 on a reader that was not yet past
\* its last message found only messages without points and returned the
\* empty batch.
C15_Witness ==
    /\ ReadOnReader /\ call.max_count > 0
    /\ pre.current_message < pre.message_count
    /\ ret.batch.count = 0
    /\ ret.batch.data.null

\* The raw longitudes of a keyed source, in the order of its grid points.
RawLonsOf(src) == [k \in 1..Len(src) |-> src[k].latlons[1][2]]

\* C16 (message index), as claimed: each message's message_index is
\* outer_index * 1000 + inner_index as an unsigned 32-bit value, and no two
\* submessages of one source have the same message_index.
C16_IndexUnique ==
    ex.stage = "reader"
      => /\ \A k \in 1..Len(ex.src) :
              ex.reader.messages[k].message_index
                = as_u32(ex.src[k].idx[1] * 1000 + ex.src[k].idx[2])
         /\ \A j, k \in 1..Len(ex.src) :
              j # k => ex.reader.messages[j].message_index
                         # ex.reader.messages[k].message_index

\* C16 amended: message_index is outer_index * 1000 + inner_index as an
\* unsigned 32-bit value, and two distinct submessages of one source whose
\* inner indices are below 1000 (keys below 2^32) have different values.
C16_IndexUniqueBelow1000 ==
    ex.stage = "reader"
      => /\ \A k \in 1..Len(ex.src) :
              ex.reader.messages[k].message_index
                = as_u32(ex.src[k].idx[1] * 1000 + ex.src[k].idx[2])
         /\ \A j, k \in 1..Len(ex.src) :
              (j # k /\ ex.src[j].idx[2] < 1000 /\ ex.src[k].idx[2] < 1000)
                => ex.reader.messages[j].message_index
                     # ex.reader.messages[k].message_index

\* C16 witness: submessages (0, 999) and (1, 0) were extracted, with
\* message_index 999 and 1000.
C16_Witness ==
    /\ ex.stage = "reader"
    /\ Len(ex.src) = 2
    /\ ex.src[1].idx = <<0, 999>> /\ ex.src[2].idx = <<1, 0>>
    /\ ex.reader.messages[1].message_index = 999
    /\ ex.reader.messages[2].message_index = 1000

\* C17 (longitude range), as claimed: every point the reader emits has a
\* longitude in (-180, 180], the raw longitude less 360 when that is above
\* 180 and the raw longitude otherwise.
C17_LongitudeRange ==
    \A k \in 1..Len(ex.emitted) :
        LET raw == RawLonsOf(ex.src)[k]
            lon == ex.emitted[k].longitude
        IN  /\ -180 < lon /\ lon <= 180
            /\ lon = IF raw > 180 THEN raw - 360 ELSE raw

\* C17 amended: every emitted longitude is the raw longitude less 360 when
\* that is above 180 and the raw longitude otherwise, and it lies in
\* (-180, 180] whenever the raw longitude lies in (-180, 540].
C17_LongitudeRangeOfRaw ==
    \A k \in 1..Len(ex.emitted) :
        LET raw == RawLonsOf(ex.src)[k]
            lon == ex.emitted[k].longitude
        IN  /\ lon = IF raw > 180 THEN raw - 360 ELSE raw
            /\ (-180 < raw /\ raw <= 540) => (-180 < lon /\ lon <= 180)

\* C17 witness: raw longitudes 180 and 540 were emitted as 180 and 180.
C17_Witness ==
    /\ Len(ex.emitted) = 2
    /\ RawLonsOf(ex.src) = <<180, 540>>
    /\ ex.emitted[1].longitude = 180
    /\ ex.emitted[2].longitude = 180

\* C18 (batch contents): a read_batch(max_count) on a reader with r
\* undelivered points returns min(max_count, r) points, the next points of
\* the concatenation in order with their messages' metadata; and over
\* messages of 3 and 5 points, reads of 4 and 4 return counts 4 and 4 with
\* has_more true and then false.
C18_BatchContents ==
    LET all    == AllPoints(reader.messages)
        before == position(reader.messages, pre.current_message,
                           pre.current_point)
        n      == Min(call.max_count, Len(all) - before)
    IN  ReadOnReader
          => /\ ret.batch.count = n
             /\ BatchPoints(ret.batch) = SubSeq(all, before + 1, before + n)
             /\ ret.batch.error = NULL
             /\ (source = ScenarioSource /\ call.max_count = 4 /\ before = 0)
                  => (ret.batch.count = 4 /\ ret.batch.has_more)
             /\ (source = ScenarioSource /\ call.max_count = 4 /\ before = 4)
                  => (ret.batch.count = 4 /\ ~ret.batch.has_more)

\* C18 witness: over the messages of 3 and 5 points, with the first four
\* points (three of the first message, one of the second) delivered, a read
\* of 4 returned the last four points and has_more false.
C18_Witness ==
    /\ source = ScenarioSource
    /\ ReadOnReader /\ call.max_count = 4
    /\ pre.current_message = 1 /\ pre.current_point = 1
    /\ ret.batch.count = 4 /\ ~ret.batch.has_more
    /\ Len(delivered) = 8
    /\ delivered[3].message_index = 0 /\ delivered[4].message_index = 1000

\* C19 (has_more means points remain), as claimed: after a read_batch on a
\* reader, has_more is true exactly when at least one point of the
\* concatenation is still undelivered, whatever the message list.
C19_HasMoreMeansPoints ==
    LET now == position(reader.messages, reader.current_message,
                        reader.current_point)
    IN  ReadOnReader
          => (ret.batch.has_more <=> now < total_points(reader.messages))

\* C20 (capacity agreement), as claimed: whenever grib2_free_batch or
\* grib2_free_result releases a buffer, the capacity it releases it with
\* (the count) is the capacity the buffer was allocated with.
C20_CapacityAgreement ==
    (call.op \in {"grib2_free_batch", "grib2_free_result"} /\ call.item.data # 0)
      => last.alloc_capacity = last.free_capacity

=============================================================================
